---- MODULE Spec2Model ----
(***************************************************************************)
(* toy-quant: qubits, gates, classical and quantum registers.              *)
(*                                                                         *)
(* Numbers.  The crate computes in f32.  Here an f32 is an integer count   *)
(* of units of 1/Scale, and every product is rounded to the nearest unit   *)
(* (ties to even), the way an IEEE multiplication rounds to the nearest    *)
(* representable value.  Sums and differences of such values are exact.    *)
(* With Scale = 23 the facts of f32 that the code and its tests rest on    *)
(* are reproduced: FRAC_1_SQRT_2 squared is strictly below one half        *)
(* (0.49999997 in f32), twice that is the largest value below 1.0          *)
(* (0.99999994 in f32), and a very small non-zero amplitude has a squared  *)
(* magnitude of exactly zero (underflow).                                  *)
(***************************************************************************)
EXTENDS Integers, Sequences, FiniteSets, TLC

VARIABLES
    build,   \* "debug" | "release": the cargo profile the crate was built with
    cr,      \* the ClassicalRegister the client holds, or NoValue
    reg,     \* the QuantumRegister the client holds, or NoValue
    gate,    \* the BinaryGate the client holds, or NoValue
    ugate,   \* the UnaryGate the client holds, or NoValue
    qubit,   \* the Qubit the client holds, or NoValue
    call     \* the last API call: its name, arguments, result, whether it panicked

vars == <<build, cr, reg, gate, ugate, qubit, call>>

NoValue == [none |-> TRUE]
NoCall == [op |-> "none", panic |-> FALSE]

-----------------------------------------------------------------------------
(* Bounds of the model *)

\* units per 1.0 of the fixed-point stand-in for f32
Scale == 23
\* boolean sequences of length 0..MaxIterLen are collected
MaxIterLen == 9
\* collapse_with_target is called with targets from TargetSpan units below 0.0
\* to TargetSpan units above 1.0
TargetSpan == 25
\* the vectors handed to from_vector have at most MaxNonZero non-zero amplitudes
MaxNonZero == 2

-----------------------------------------------------------------------------
(* f32 arithmetic *)

\* <<F(1), ..., F(n)>>
SeqOf(n, F(_)) ==
    LET S[k \in 0..n] == IF k = 0 THEN <<>> ELSE Append(S[k - 1], F(k))
    IN  S[n]

Abs(x) == IF x < 0 THEN -x ELSE x
Max(a, b) == IF a >= b THEN a ELSE b

\* n/d rounded to the nearest integer, ties to even (d > 0)
RoundDiv(n, d) ==
    LET q == n \div d
        r == n % d
    IN  IF 2 * r < d THEN q
        ELSE IF 2 * r > d THEN q + 1
        ELSE IF q % 2 = 0 THEN q ELSE q + 1

\* f32 * f32 (a product with 0.0 is 0.0)
FMul(a, b) == IF a = 0 \/ b = 0 THEN 0 ELSE RoundDiv(a * b, Scale)

\* f32 % f32: the remainder truncated towards zero, with the sign of the dividend
FRem(a, b) == IF a >= 0 THEN a % b ELSE -((-a) % b)

\* 1.0f32
F1 == Scale

\* std::f32::consts::FRAC_1_SQRT_2: the representable value nearest to 1/sqrt(2)
FRAC_1_SQRT_2 ==
    CHOOSE n \in 0..Scale :
        /\ (2 * n - 1) * (2 * n - 1) < 2 * Scale * Scale
        /\ 2 * Scale * Scale < (2 * n + 1) * (2 * n + 1)

\* f32::EPSILON: the gap between 1.0 and the next representable value
EPSILON == 1

\* approx::relative_eq on f32 with the default epsilon and max_relative
\* (both f32::EPSILON), as assert_relative_eq! calls it
RelativeEqF32(a, b) ==
    LET d == Abs(a - b)
    IN  \/ d <= EPSILON
        \/ d * Scale <= Max(Abs(a), Abs(b)) * EPSILON

-----------------------------------------------------------------------------
(* Complex *)

Complex(re, im) == [re |-> re, im |-> im]
CZero == Complex(0, 0)
COne == Complex(F1, 0)
CI == Complex(0, F1)
FromRe(x) == Complex(x, 0)

CAdd(a, b) == Complex(a.re + b.re, a.im + b.im)
CNeg(a) == Complex(-a.re, -a.im)
CConj(a) == Complex(a.re, -a.im)
CMul(a, b) ==
    Complex(FMul(a.re, b.re) - FMul(a.im, b.im),
            FMul(a.re, b.im) + FMul(a.im, b.re))
\* Complex * f32
CMulF32(a, x) == Complex(FMul(a.re, x), FMul(a.im, x))
\* |x|^2
MagSquare(a) == FMul(a.re, a.re) + FMul(a.im, a.im)

RelativeEqComplex(a, b) ==
    RelativeEqF32(a.re, b.re) /\ RelativeEqF32(a.im, b.im)

-----------------------------------------------------------------------------
(* u8 arithmetic of the ClassicalRegister *)

Pow2(n) == 2 ^ n

\* the width of u8
U8Bits == 8
U8Mod == Pow2(U8Bits)

RECURSIVE BitAnd(_, _)
\* a & b, a | b, !a on u8
BitAnd(a, b) ==
    IF a = 0 \/ b = 0 THEN 0
    ELSE (a % 2) * (b % 2) + 2 * BitAnd(a \div 2, b \div 2)
BitOr(a, b) == a + b - BitAnd(a, b)
BitNot(a) == (U8Mod - 1) - a

\* A shift of a u8 by n >= 8 overflows: a debug build panics ("attempt to shift
\* left with overflow"), a release build shifts by n modulo 8.
ShiftOverflows(n) == n >= U8Bits
Shl(x, n) == (x * Pow2(n % U8Bits)) % U8Mod
Shr(x, n) == x \div Pow2(n % U8Bits)

BoolToU8(b) == IF b THEN 1 ELSE 0

\* ClassicalRegister::from_iter: [bits, panic] after folding the sequence
RECURSIVE FromIterFold(_, _, _)
FromIterFold(s, n, bits) ==
    IF n = Len(s) THEN [bits |-> bits, panic |-> FALSE]
    ELSE IF ShiftOverflows(n) /\ build = "debug"
         THEN [bits |-> bits, panic |-> TRUE]
         ELSE FromIterFold(s, n + 1, BitOr(bits, Shl(BoolToU8(s[n + 1]), n)))

RECURSIVE FromIterMsbFirst(_, _)
\* from_iter packing the first element into the most significant bit
FromIterMsbFirst(s, bits) ==
    IF s = <<>> THEN [bits |-> bits, panic |-> FALSE]
    ELSE FromIterMsbFirst(Tail(s), (2 * bits + BoolToU8(Head(s))) % U8Mod)
from_iter_msb_first(s) == FromIterMsbFirst(s, 0)

from_iter(s) == FromIterFold(s, 0, 0)

\* ClassicalRegister::index (index < 8)
index(c, i) == BitAnd(Shr(c.bits, i), 1) = 1

\* set whose clearing branch lacks the complement of the mask
set_without_complement(c, i, val) ==
    IF val THEN [bits |-> BitOr(c.bits, Shl(1, i))]
    ELSE [bits |-> BitAnd(c.bits, Shl(1, i))]

\* ClassicalRegister::set (index < 8)
set(c, i, val) ==
    IF val THEN [bits |-> BitOr(c.bits, Shl(1, i))]
    ELSE [bits |-> BitAnd(c.bits, BitNot(Shl(1, i)))]

BoolSeqs(n) == [1..n -> BOOLEAN]
IterInputs == UNION {BoolSeqs(n) : n \in 0..MaxIterLen}

\* one ClassicalRegister is followed from its construction on
FromIter(s) ==
    LET r == from_iter(s)
    IN  /\ cr = NoValue
        /\ call.op = "none"
        /\ cr' = IF r.panic THEN cr ELSE [bits |-> r.bits]
        /\ call' = [op |-> "from_iter", iter |-> s, panic |-> r.panic]
        /\ UNCHANGED <<build, reg, gate, ugate, qubit>>

Index(i) ==
    /\ cr # NoValue
    /\ LET over == ShiftOverflows(i) /\ build = "debug"
       IN  call' = [op |-> "index", index |-> i, panic |-> over,
                    ret |-> IF over THEN FALSE ELSE index(cr, i)]
    /\ UNCHANGED <<build, cr, reg, gate, ugate, qubit>>

Set(i, val) ==
    /\ cr # NoValue
    /\ LET over == ShiftOverflows(i) /\ build = "debug"
       IN  /\ cr' = IF over THEN cr ELSE set(cr, i, val)
           /\ call' = [op |-> "set", index |-> i, val |-> val, before |-> cr.bits,
                       panic |-> over]
    /\ UNCHANGED <<build, reg, gate, ugate, qubit>>

-----------------------------------------------------------------------------
(* Qubit *)

\* Qubit::new accepting every sum that is not too low
QubitNewOkNotTooLow(p0, p1) == MagSquare(p0) + MagSquare(p1) >= F1 - EPSILON

\* Qubit::new: whether the assertion on |p_0|^2 + |p_1|^2 passes
QubitNewOk(p0, p1) == RelativeEqF32(F1, MagSquare(p0) + MagSquare(p1))

\* the amplitudes Qubit::new is called with
QubitAmps ==
    {CZero, COne, CI, FromRe(FRAC_1_SQRT_2), FromRe(-FRAC_1_SQRT_2)}

\* the Qubit values a client can hold: every Qubit::new that does not panic
\* (Qubit::zero, one, plus and minus among them); inner = <<p_0, p_1>>
QubitPool ==
    {[inner |-> <<p0, p1>>] : <<p0, p1>> \in
        {pp \in QubitAmps \X QubitAmps : QubitNewOk(pp[1], pp[2])}}

QubitZero == [inner |-> <<COne, CZero>>]
QubitOne == [inner |-> <<CZero, COne>>]

\* Qubit::new: the assertion, then the Qubit of the two amplitudes
QubitNew(p_0, p_1) == [panic |-> ~QubitNewOk(p_0, p_1), inner |-> <<p_0, p_1>>]
\* Qubit::zero, one, plus, minus
zero == QubitNew(COne, CZero)
one == QubitNew(CZero, COne)
plus == QubitNew(FromRe(FRAC_1_SQRT_2), FromRe(FRAC_1_SQRT_2))
minus == QubitNew(FromRe(FRAC_1_SQRT_2), FromRe(-FRAC_1_SQRT_2))
\* Neg for Qubit
neg(q) == [inner |-> <<CNeg(q.inner[1]), CNeg(q.inner[2])>>]

\* the real and imaginary parts of the amplitudes Qubit::new is called with
AmpParts == {-F1, -FRAC_1_SQRT_2, 0, 1, FRAC_1_SQRT_2, F1}
NewAmps == {Complex(re, im) : re \in AmpParts, im \in AmpParts}

\* one Qubit is followed from its construction on
SetQubit(op, args, r) ==
    /\ qubit = NoValue
    /\ qubit' = IF r.panic THEN qubit ELSE [inner |-> r.inner]
    /\ call' = [op |-> op, args |-> args, panic |-> r.panic]
    /\ UNCHANGED <<build, cr, reg, gate, ugate>>

New(p_0, p_1) == SetQubit("Qubit::new", <<p_0, p_1>>, QubitNew(p_0, p_1))
Zero == SetQubit("Qubit::zero", <<>>, zero)
One == SetQubit("Qubit::one", <<>>, one)
Plus == SetQubit("Qubit::plus", <<>>, plus)
Minus == SetQubit("Qubit::minus", <<>>, minus)

Neg ==
    /\ qubit # NoValue
    /\ qubit' = neg(qubit)
    /\ call' = [op |-> "neg", args |-> <<qubit>>, panic |-> FALSE]
    /\ UNCHANGED <<build, cr, reg, gate, ugate>>

-----------------------------------------------------------------------------
(* QuantumRegister *)

\* the state counts N the crate instantiates QuantumRegister<N> with: U2, U4
Dims == {2, 4}

\* 1.0e-6, the tolerance of is_valid, in units of f32::EPSILON
VALID_TOL == 8

RECURSIVE SumMagSquare(_, _)
\* the squared magnitudes of vector[1..n], summed in index order
SumMagSquare(vector, n) ==
    IF n = 0 THEN 0 ELSE SumMagSquare(vector, n - 1) + MagSquare(vector[n])

\* QuantumRegister::is_valid
is_valid(vector) == Abs(SumMagSquare(vector, Len(vector)) - F1) <= VALID_TOL

\* from_classical writing the amplitude one place too low
from_classical_off_by_one(N, bits) ==
    [panic |-> FALSE, qubits |-> SeqOf(N, LAMBDA i : IF i = bits THEN COne ELSE CZero)]

\* QuantumRegister::from_classical for N states and ClassicalRegister { bits }:
\* indexing past the end of the vector panics; the debug_assert is compiled
\* into debug builds only
from_classical(N, bits) ==
    LET qubits == SeqOf(N, LAMBDA i : IF i = bits + 1 THEN COne ELSE CZero)
    IN  IF bits >= N THEN [panic |-> TRUE]
        ELSE IF build = "debug" /\ ~is_valid(qubits) THEN [panic |-> TRUE]
        ELSE [panic |-> FALSE, qubits |-> qubits]

\* QuantumRegister::from_vector
from_vector(qubits) == [panic |-> FALSE, qubits |-> qubits]

\* from_2_qubits with the second argument as the more significant bit
from_2_qubits_reversed(qa, qb) ==
    [panic |-> FALSE,
     qubits |-> <<CMul(qa.inner[1], qb.inner[1]), CMul(qa.inner[2], qb.inner[1]),
                  CMul(qa.inner[1], qb.inner[2]), CMul(qa.inner[2], qb.inner[2])>>]

\* QuantumRegister::from_2_qubits
from_2_qubits(qa, qb) ==
    LET qa_0 == qa.inner[1]
        qa_1 == qa.inner[2]
        qb_0 == qb.inner[1]
        qb_1 == qb.inner[2]
        ket_00 == CMul(qa_0, qb_0)
        ket_01 == CMul(qa_0, qb_1)
        ket_10 == CMul(qa_1, qb_0)
        ket_11 == CMul(qa_1, qb_1)
    IN  [panic |-> FALSE, qubits |-> <<ket_00, ket_01, ket_10, ket_11>>]

\* From<Qubit> for QuantumRegister<U2>
from_qubit(q) == [panic |-> FALSE, qubits |-> q.inner]

RECURSIVE CollapseScanFirstReserve(_, _, _, _, _)
\* CollapseScan keeping the first index of non-zero probability as its reserve
CollapseScanFirstReserve(qubits, target, bits, current, reserve) ==
    IF bits = Len(qubits)
    THEN IF reserve = {}
         THEN [panic |-> TRUE, target |-> target, early |-> FALSE]
         ELSE [panic |-> FALSE, target |-> target, early |-> FALSE,
               bits |-> CHOOSE b \in reserve : TRUE]
    ELSE LET prob == MagSquare(qubits[bits + 1])
             cur == current + prob
         IN  IF cur > target
             THEN [panic |-> FALSE, target |-> target, early |-> TRUE, bits |-> bits]
             ELSE CollapseScanFirstReserve(qubits, target, bits + 1, cur,
                     IF prob # 0 /\ reserve = {} THEN {bits} ELSE reserve)

RECURSIVE CollapseScanInclusive(_, _, _, _, _)
\* CollapseScan returning at current >= target
CollapseScanInclusive(qubits, target, bits, current, reserve) ==
    IF bits = Len(qubits)
    THEN IF reserve = {}
         THEN [panic |-> TRUE, target |-> target, early |-> FALSE]
         ELSE [panic |-> FALSE, target |-> target, early |-> FALSE,
               bits |-> CHOOSE b \in reserve : TRUE]
    ELSE LET prob == MagSquare(qubits[bits + 1])
             cur == current + prob
         IN  IF cur >= target
             THEN [panic |-> FALSE, target |-> target, early |-> TRUE, bits |-> bits]
             ELSE CollapseScanInclusive(qubits, target, bits + 1, cur,
                                        IF prob # 0 THEN {bits} ELSE reserve)

RECURSIVE CollapseScan(_, _, _, _, _)
\* the loop of collapse_with_target from basis index bits on; reserve is
\* {} (None) or {i} (Some(i))
CollapseScan(qubits, target, bits, current, reserve) ==
    IF bits = Len(qubits)
    THEN IF reserve = {}
         THEN [panic |-> TRUE, target |-> target, early |-> FALSE]
         ELSE [panic |-> FALSE, target |-> target, early |-> FALSE,
               bits |-> CHOOSE b \in reserve : TRUE]
    ELSE LET prob == MagSquare(qubits[bits + 1])
             cur == current + prob
         IN  IF cur > target
             THEN [panic |-> FALSE, target |-> target, early |-> TRUE, bits |-> bits]
             ELSE CollapseScan(qubits, target, bits + 1, cur,
                               IF prob # 0 THEN {bits} ELSE reserve)

\* QuantumRegister::collapse_with_target
collapse_with_target(qubits, target) ==
    CollapseScan(qubits, FRem(target, F1), 0, 0, {})

\* the amplitudes of the vectors handed to from_vector
VectorAmps == {CZero, Complex(1, 0), FromRe(FRAC_1_SQRT_2), COne}
\* the vectors handed to from_vector: at most MaxNonZero amplitudes are not zero
VectorPool ==
    UNION {{v \in [1..N -> VectorAmps] :
                Cardinality({i \in 1..N : v[i] # CZero}) <= MaxNonZero} : N \in Dims}

\* the values rand::random::<f32>() draws: uniform in [0, 1)
RandomF32 == 0..(F1 - 1)
\* the targets collapse_with_target is called with
Targets == (-TargetSpan)..(F1 + TargetSpan)

\* one QuantumRegister is followed from its construction on
SetRegister(op, args, r) ==
    /\ reg = NoValue
    /\ reg' = IF r.panic THEN reg ELSE [qubits |-> r.qubits]
    /\ call' = [op |-> op, args |-> args, panic |-> r.panic]
    /\ UNCHANGED <<build, cr, gate, ugate, qubit>>

FromClassical(N, bits) == SetRegister("from_classical", <<N, bits>>, from_classical(N, bits))
FromVector(v) == SetRegister("from_vector", <<v>>, from_vector(v))
From2Qubits(qa, qb) == SetRegister("from_2_qubits", <<qa, qb>>, from_2_qubits(qa, qb))
FromQubit(q) == SetRegister("from", <<q>>, from_qubit(q))

CollapseWithTarget(target) ==
    /\ reg # NoValue
    /\ call' = [op |-> "collapse_with_target", target |-> target,
                ret |-> collapse_with_target(reg.qubits, target)]
    /\ UNCHANGED <<build, cr, reg, gate, ugate, qubit>>

Collapse ==
    /\ reg # NoValue
    /\ \E target \in RandomF32 :
          call' = [op |-> "collapse", target |-> target,
                   ret |-> collapse_with_target(reg.qubits, target)]
    /\ UNCHANGED <<build, cr, reg, gate, ugate, qubit>>

-----------------------------------------------------------------------------
(* Matrices (nalgebra Matrix2<Complex>, Matrix4<Complex>): sequences of rows *)

Dim(m) == Len(m)

RECURSIVE DotFrom(_, _, _, _)
\* sum over k of row[k] * m[k][j], for k = from..Len(row)
DotFrom(row, m, j, from) ==
    IF from > Len(row) THEN CZero
    ELSE CAdd(CMul(row[from], m[from][j]), DotFrom(row, m, j, from + 1))

\* a * b
MatMul(a, b) ==
    SeqOf(Dim(a), LAMBDA i : SeqOf(Dim(a), LAMBDA j : DotFrom(a[i], b, j, 1)))

RECURSIVE RowDotFrom(_, _, _)
RowDotFrom(row, v, from) ==
    IF from > Len(row) THEN CZero
    ELSE CAdd(CMul(row[from], v[from]), RowDotFrom(row, v, from + 1))

\* mat * vector
MatVec(m, v) == SeqOf(Dim(m), LAMBDA i : RowDotFrom(m[i], v, 1))

\* mat.transpose().map(|x| x.conj())
ConjTranspose(m) ==
    SeqOf(Dim(m), LAMBDA i : SeqOf(Dim(m), LAMBDA j : CConj(m[j][i])))

\* Matrix::identity()
Identity(n) ==
    SeqOf(n, LAMBDA i : SeqOf(n, LAMBDA j : IF i = j THEN COne ELSE CZero))

\* assert_relative_eq! on two matrices: every pair of elements is relative_eq
RelativeEqMat(a, b) ==
    \A i \in 1..Dim(a), j \in 1..Dim(a) : RelativeEqComplex(a[i][j], b[i][j])

\* the check of UnaryGate::new and BinaryGate::new: mat * mat^dagger is
\* relative_eq to the identity
IsUnitary(mat) == RelativeEqMat(MatMul(mat, ConjTranspose(mat)), Identity(Dim(mat)))

\* mat.map(Complex::from) for a matrix of u8
FromU8(m) ==
    SeqOf(Dim(m), LAMBDA i : SeqOf(Dim(m), LAMBDA j : FromRe(m[i][j] * F1)))

-----------------------------------------------------------------------------
(* UnaryGate *)

\* UnaryGate::new
UnaryNew(mat) ==
    IF IsUnitary(mat) THEN [panic |-> FALSE, mat |-> mat] ELSE [panic |-> TRUE]

NotMat == <<<<CZero, COne>>, <<COne, CZero>>>>
ZMat == <<<<COne, CZero>>, <<CZero, CNeg(COne)>>>>
HMat ==
    LET m == <<<<COne, COne>>, <<COne, CNeg(COne)>>>>
    IN  SeqOf(2, LAMBDA i : SeqOf(2, LAMBDA j : CMulF32(m[i][j], FRAC_1_SQRT_2)))
YMat == <<<<CZero, CNeg(CI)>>, <<CI, CZero>>>>

\* the 2x2 matrices UnaryGate::new is called with: those of gates::not, z, h
\* and pauli::y, and matrices that are not unitary
UnaryMatPool ==
    {NotMat, ZMat, HMat, YMat,
     <<<<COne, COne>>, <<COne, CNeg(COne)>>>>,
     <<<<COne, CZero>>, <<CZero, CZero>>>>,
     <<<<CZero, CZero>>, <<CZero, CZero>>>>}

\* UnaryGate::run
run(g, q) == [inner |-> MatVec(g.mat, q.inner)]

NewUnaryGate(mat) ==
    LET r == UnaryNew(mat)
    IN  /\ ugate' = IF r.panic THEN ugate ELSE [mat |-> r.mat]
        /\ call' = [op |-> "UnaryGate::new", args |-> <<mat>>, panic |-> r.panic]
        /\ UNCHANGED <<build, cr, reg, gate, qubit>>

-----------------------------------------------------------------------------
(* BinaryGate *)

\* BinaryGate::new without its assertion
BinaryNewUnchecked(mat) == [panic |-> FALSE, mat |-> mat]

\* BinaryGate::new
BinaryNew(mat) ==
    IF IsUnitary(mat) THEN [panic |-> FALSE, mat |-> mat] ELSE [panic |-> TRUE]

\* BinaryGate::new_u8
new_u8(mat) == BinaryNew(FromU8(mat))

\* a unitary matrix that is not its own inverse: a cycle of |01>, |10>, |11>
CnotU8Cycle == <<<<1, 0, 0, 0>>, <<0, 0, 0, 1>>, <<0, 1, 0, 0>>, <<0, 0, 1, 0>>>>

CnotU8 == <<<<1, 0, 0, 0>>, <<0, 1, 0, 0>>, <<0, 0, 0, 1>>, <<0, 0, 1, 0>>>>
SwapU8 == <<<<1, 0, 0, 0>>, <<0, 0, 1, 0>>, <<0, 1, 0, 0>>, <<0, 0, 0, 1>>>>

\* gates::cnot, gates::swap
cnot == new_u8(CnotU8)
swap == new_u8(SwapU8)

\* BinaryGate::compose
compose(self, other) == BinaryNew(MatMul(self.mat, other.mat))

\* BinaryGate::swap returning the gate as it is
swap_wires_unchanged(self) == [panic |-> FALSE, mat |-> self.mat]

\* BinaryGate::swap without the second compose
swap_wires_half(self) == compose(swap, self)

\* BinaryGate::swap: gates::swap().compose(self).compose(&gates::swap())
swap_wires(self) ==
    LET inner == compose(swap, self)
    IN  IF inner.panic THEN inner ELSE compose(inner, swap)

\* BinaryGate::apply
apply(self, qubits) == from_vector(MatVec(self.mat, qubits))

\* the u8 matrices BinaryGate::new_u8 is called with besides those of cnot and
\* swap: the identity, and matrices that are not unitary
BinaryU8Pool ==
    {<<<<1, 0, 0, 0>>, <<0, 1, 0, 0>>, <<0, 0, 1, 0>>, <<0, 0, 0, 1>>>>,
     <<<<2, 0, 0, 0>>, <<0, 2, 0, 0>>, <<0, 0, 2, 0>>, <<0, 0, 0, 2>>>>,
     <<<<1, 0, 0, 0>>, <<0, 1, 0, 0>>, <<0, 0, 1, 1>>, <<0, 0, 1, 0>>>>,
     <<<<1, 0, 0, 0>>, <<0, 1, 0, 0>>, <<0, 0, 0, 1>>, <<0, 0, 0, 1>>>>,
     <<<<0, 0, 0, 0>>, <<0, 0, 0, 0>>, <<0, 0, 0, 0>>, <<0, 0, 0, 0>>>>}

\* gates::cnot() and gates::swap() as BinaryGate values
CanonicalGates == {[mat |-> cnot.mat], [mat |-> swap.mat]}

\* the BinaryGate values a client holds besides the one followed here:
\* cnot(), swap(), cnot().swap() and every new_u8 that does not panic
BinaryGatePool ==
    LET made == {cnot, swap, swap_wires(cnot)} \cup {new_u8(m) : m \in BinaryU8Pool}
    IN  {[mat |-> r.mat] : r \in {x \in made : ~x.panic}}

SetGate(op, args, r) ==
    /\ gate' = IF r.panic THEN gate ELSE [mat |-> r.mat]
    /\ call' = [op |-> op, args |-> args, panic |-> r.panic]
    /\ UNCHANGED <<build, cr, reg, ugate, qubit>>

Cnot == SetGate("cnot", <<>>, cnot)
SwapGate == SetGate("swap", <<>>, swap)
NewU8(m) == SetGate("new_u8", <<m>>, new_u8(m))
\* gate.compose(&other)
Compose(other) ==
    /\ gate # NoValue
    /\ SetGate("compose", <<gate.mat, other.mat>>, compose(gate, other))
\* other.compose(&gate)
ComposeOnto(other) ==
    /\ gate # NoValue
    /\ SetGate("compose", <<other.mat, gate.mat>>, compose(other, gate))
SwapWires ==
    /\ gate # NoValue
    /\ SetGate("BinaryGate::swap", <<gate.mat>>, swap_wires(gate))

\* apply takes a Register2 = QuantumRegister<U4> by value and returns the new
\* register; before is the register handed to the previous call when that call
\* applied the same matrix
Apply ==
    /\ gate # NoValue
    /\ reg # NoValue
    /\ Len(reg.qubits) = 4
    /\ LET r == apply(gate, reg.qubits)
       IN  /\ reg' = [qubits |-> r.qubits]
           /\ call' = [op |-> "apply", args |-> <<gate.mat, reg.qubits>>,
                       panic |-> FALSE,
                       before |-> IF call.op = "apply" /\ call.args[1] = gate.mat
                                  THEN <<call.args[2]>> ELSE <<>>]
    /\ UNCHANGED <<build, cr, gate, ugate, qubit>>

-----------------------------------------------------------------------------
(* examples/bell.rs *)

\* gates::h
h == UnaryNew(HMat)

\* entangle_qubits without the cnot
entangle_qubits_without_cnot(ket_a, ket_b) == from_2_qubits(run(h, ket_a), ket_b)

\* entangle_qubits: cnot().apply(from_2_qubits(h().run(ket_a), ket_b))
entangle_qubits(ket_a, ket_b) ==
    LET merged == from_2_qubits(run(h, ket_a), ket_b)
    IN  apply(cnot, merged.qubits)

\* the qubits main hands to eval_qubits
BasisQubits == {QubitZero, QubitOne}

EntangleQubits(ket_a, ket_b) ==
    SetRegister("entangle_qubits", <<ket_a, ket_b>>, entangle_qubits(ket_a, ket_b))

-----------------------------------------------------------------------------
Init ==
    /\ build \in {"debug", "release"}
    /\ cr = NoValue
    /\ reg = NoValue
    /\ gate = NoValue
    /\ ugate = NoValue
    /\ qubit = NoValue
    /\ call = NoCall

\* the ClassicalRegister
NextClassical ==
    \/ \E s \in IterInputs : FromIter(s)
    \/ \E i \in 0..(U8Bits - 1) : Index(i)
    \/ \E i \in 0..(U8Bits - 1), val \in BOOLEAN : Set(i, val)

\* the ClassicalRegister values from_classical is called with
ClassicalInputs == 0..4

\* registers and their collapse
NextCollapse ==
    \/ \E N \in Dims, bits \in ClassicalInputs : FromClassical(N, bits)
    \/ \E v \in VectorPool : FromVector(v)
    \/ \E qa \in QubitPool, qb \in QubitPool : From2Qubits(qa, qb)
    \/ \E q \in QubitPool : FromQubit(q)
    \/ \E ket_a \in BasisQubits, ket_b \in BasisQubits : EntangleQubits(ket_a, ket_b)
    \/ \E target \in Targets : CollapseWithTarget(target)
    \/ Collapse

\* registers, the canonical two-qubit gates and what compose and swap make of
\* them, and their application
Next ==
    \/ \E N \in Dims, bits \in ClassicalInputs : FromClassical(N, bits)
    \/ \E v \in VectorPool : FromVector(v)
    \/ \E qa \in QubitPool, qb \in QubitPool : From2Qubits(qa, qb)
    \/ \E q \in QubitPool : FromQubit(q)
    \/ Cnot
    \/ SwapGate
    \/ \E other \in CanonicalGates : Compose(other)
    \/ SwapWires
    \/ Apply

\* the construction of gates
NextGates ==
    \/ \E mat \in UnaryMatPool : NewUnaryGate(mat)
    \/ Cnot
    \/ SwapGate
    \/ \E m \in BinaryU8Pool : NewU8(m)
    \/ \E other \in BinaryGatePool : Compose(other)
    \/ \E other \in BinaryGatePool : ComposeOnto(other)
    \/ SwapWires

\* the construction of qubits
NextQubit ==
    \/ \E p_0 \in NewAmps, p_1 \in NewAmps : New(p_0, p_1)
    \/ Zero
    \/ One
    \/ Plus
    \/ Minus
    \/ Neg

Spec == Init /\ [][Next]_vars
SpecQubit == Init /\ [][NextQubit]_vars
SpecClassical == Init /\ [][NextClassical]_vars
SpecCollapse == Init /\ [][NextCollapse]_vars
SpecGates == Init /\ [][NextGates]_vars

-----------------------------------------------------------------------------
(* Properties *)

IsCollapse == call.op \in {"collapse", "collapse_with_target"}
InUnitRange(target) == 0 <= target /\ target < F1
NumStates == Len(reg.qubits)
\* the probability mass of the basis states 0..n-1, accumulated in index order
Mass(n) == SumMagSquare(reg.qubits, n)
HasNonZeroAmplitude == \E i \in 1..NumStates : reg.qubits[i] # CZero

\* C1: for a target in [0,1), when some running sum exceeds the target,
\* collapse_with_target returns the first index i whose running sum exceeds
\* it: (sum of |amplitude[j]|^2 for j < i) <= target < (sum for j <= i).
C1_FirstIndexExceedingTarget ==
    (/\ IsCollapse
     /\ InUnitRange(call.target)
     /\ \E n \in 1..NumStates : Mass(n) > call.target)
    => /\ ~call.ret.panic
       /\ call.ret.bits \in 0..(NumStates - 1)
       /\ Mass(call.ret.bits) <= call.target
       /\ call.target < Mass(call.ret.bits + 1)
       /\ \A j \in 0..(NumStates - 1) :
             (Mass(j) <= call.target /\ call.target < Mass(j + 1)) => j = call.ret.bits

\* the last basis state of a register with two equal non-zero amplitudes is
\* returned for a target between the two running sums
C1_Witness ==
    /\ call.op = "collapse_with_target"
    /\ InUnitRange(call.target)
    /\ NumStates = 4
    /\ call.ret.early
    /\ call.ret.bits = 3
    /\ Mass(3) > 0
    /\ call.target >= Mass(3)

\* C2: for a register with at least one non-zero amplitude and a target in
\* [0,1), collapse_with_target does not panic and does not return an index
\* whose amplitude is exactly zero; when no running sum exceeds the target it
\* returns the last index with non-zero probability mass.
C2_NeverPanicsNeverZeroAmplitude ==
    (/\ IsCollapse
     /\ InUnitRange(call.target)
     /\ HasNonZeroAmplitude)
    => /\ ~call.ret.panic
       /\ reg.qubits[call.ret.bits + 1] # CZero
       /\ ~call.ret.early =>
             /\ MagSquare(reg.qubits[call.ret.bits + 1]) # 0
             /\ \A j \in (call.ret.bits + 2)..NumStates : MagSquare(reg.qubits[j]) = 0

\* C3: a target outside [0,1) is reduced into [0,1) before the scan, and the
\* index returned for it is one that some target in [0,1) returns, an index
\* with non-zero amplitude.
C3_TargetReducedIntoUnitRange ==
    (/\ call.op = "collapse_with_target"
     /\ ~InUnitRange(call.target)
     /\ HasNonZeroAmplitude)
    => /\ InUnitRange(call.ret.target)
       /\ ~call.ret.panic =>
             /\ \E t \in RandomF32 :
                   LET r == collapse_with_target(reg.qubits, t)
                   IN  ~r.panic /\ r.bits = call.ret.bits
             /\ reg.qubits[call.ret.bits + 1] # CZero

\* the register with amplitude 1 at index k and 0 elsewhere
BasisVector(N, k) == [i \in 1..N |-> IF i = k + 1 THEN COne ELSE CZero]

C5_RegistersNormalized ==
    /\ reg # NoValue => is_valid(reg.qubits)
    /\ (call.op = "from_vector" /\ ~is_valid(call.args[1])) => call.panic

\* U * conjugate-transpose(U) is the identity, to the tolerance the
\* constructors compare with
UnitaryMatrix(U) == RelativeEqMat(MatMul(U, ConjTranspose(U)), Identity(Dim(U)))

\* C6: every UnaryGate and BinaryGate that exists has a unitary matrix: new
\* fails on a matrix that is not unitary, and what compose and swap return
\* went through the same check.
C6_GatesUnitary ==
    /\ gate # NoValue => UnitaryMatrix(gate.mat)
    /\ ugate # NoValue => UnitaryMatrix(ugate.mat)
    /\ (call.op = "new_u8" /\ ~UnitaryMatrix(FromU8(call.args[1]))) => call.panic
    /\ (call.op = "UnaryGate::new" /\ ~UnitaryMatrix(call.args[1])) => call.panic
    /\ (call.op \in {"compose", "BinaryGate::swap"} /\ ~call.panic) =>
          UnitaryMatrix(gate.mat)

\* a matrix that is not unitary was refused while both kinds of gate exist
C6_Witness ==
    /\ call.op = "new_u8"
    /\ call.panic
    /\ gate # NoValue
    /\ ugate # NoValue
    /\ ugate.mat = HMat

BasisQubit(b) == IF b = 0 THEN QubitZero ELSE QubitOne
Xor(a, b) == (a + b) % 2
\* the register with amplitude 1 at index 2c + t
Ket(c, t) == BasisVector(4, 2 * c + t)

\* C7: from_2_qubits(qa, qb) places qa[a] * qb[b] at index 2a + b, and cnot
\* maps from_2_qubits(c, t) to from_2_qubits(c, t XOR c) for basis qubits c, t.
C7_CnotTruthTable ==
    /\ (call.op = "from_2_qubits" /\ ~call.panic) =>
          /\ \A a \in {0, 1}, b \in {0, 1} :
                reg.qubits[2 * a + b + 1] =
                   CMul(call.args[1].inner[a + 1], call.args[2].inner[b + 1])
          /\ \A c \in {0, 1}, t \in {0, 1} :
                (call.args[1] = BasisQubit(c) /\ call.args[2] = BasisQubit(t)) =>
                   reg.qubits = Ket(c, t)
    /\ (call.op = "apply" /\ call.args[1] = cnot.mat) =>
          \A c \in {0, 1}, t \in {0, 1} :
             call.args[2] = Ket(c, t) => reg.qubits = Ket(c, Xor(t, c))

\* cnot() applied to control |1>, target |0>
C7_Witness ==
    /\ call.op = "apply"
    /\ call.args[1] = cnot.mat
    /\ call.args[2] = Ket(1, 0)
    /\ reg.qubits = Ket(1, 1)

CnotGate == [mat |-> cnot.mat]
CnotSwapped == [mat |-> swap_wires(CnotGate).mat]

\* C8: with x = cnot(), x.compose(x.swap()).compose(x) and
\* x.swap().compose(x).compose(x.swap()) have the SWAP matrix.
C8_CnotSwapRelation ==
    /\ (/\ call.op = "compose"
        /\ call.args = <<compose(CnotGate, CnotSwapped).mat, CnotGate.mat>>)
       => ~call.panic /\ gate.mat = swap.mat
    /\ (/\ call.op = "compose"
        /\ call.args = <<compose(CnotSwapped, CnotGate).mat, CnotSwapped.mat>>)
       => ~call.panic /\ gate.mat = swap.mat

\* the last compose of x.swap().compose(x).compose(x.swap())
C8_Witness ==
    /\ call.op = "compose"
    /\ call.args = <<compose(CnotSwapped, CnotGate).mat, CnotSwapped.mat>>
    /\ call.args[1] # CnotGate.mat
    /\ call.args[2] # CnotGate.mat
    /\ gate.mat = swap.mat

\* C9: cnot().compose(cnot()) and SWAP * SWAP are the 4x4 identity, and
\* applying cnot or swap twice to a 2-qubit register gives the register back.
C9_Involutions ==
    /\ (call.op = "compose" /\ call.args = <<cnot.mat, cnot.mat>>) =>
          ~call.panic /\ gate.mat = Identity(4)
    /\ (call.op = "compose" /\ call.args = <<swap.mat, swap.mat>>) =>
          ~call.panic /\ gate.mat = Identity(4)
    /\ (/\ call.op = "apply"
        /\ call.args[1] \in {cnot.mat, swap.mat}
        /\ call.before # <<>>)
       => reg.qubits = call.before[1]

\* cnot applied for the second time in a row to a register it changes
C9_Witness ==
    /\ call.op = "apply"
    /\ call.args[1] = cnot.mat
    /\ call.before # <<>>
    /\ call.args[2] # call.before[1]
    /\ reg.qubits = call.before[1]
    /\ \E i \in 1..4 : reg.qubits[i] \notin {CZero, COne}

RECURSIVE PackedLsbFirst(_)
\* sum of s[i] * 2^i over the sequence, its first element being s[0]
PackedLsbFirst(s) ==
    IF s = <<>> THEN 0 ELSE BoolToU8(Head(s)) + 2 * PackedLsbFirst(Tail(s))

\* C10: a boolean sequence of length 0 to 8 is packed least significant bit
\* first: index(i) is s[i] for i below its length and false from there to 7;
\* 8 falses give 0 and 8 trues give 255.
C10_FromIterRoundTrip ==
    (call.op = "from_iter" /\ Len(call.iter) <= U8Bits) =>
       /\ ~call.panic
       /\ cr.bits = PackedLsbFirst(call.iter)
       /\ \A i \in 0..(U8Bits - 1) :
             index(cr, i) = (i < Len(call.iter) /\ call.iter[i + 1])
       /\ call.iter = [i \in 1..U8Bits |-> FALSE] => cr.bits = 0
       /\ call.iter = [i \in 1..U8Bits |-> TRUE] => cr.bits = 255

\* a sequence that is not a palindrome, shorter than the register
C10_Witness ==
    /\ call.op = "from_iter"
    /\ call.iter = <<TRUE, TRUE, FALSE, FALSE, TRUE, FALSE, TRUE>>
    /\ cr.bits = 83

\* C11: collecting a ClassicalRegister from a boolean sequence of more than 8
\* elements fails, whatever the extra elements are, and yields no register.
C11_OverfullIterFails ==
    (call.op = "from_iter" /\ Len(call.iter) > U8Bits) =>
       /\ call.panic
       /\ cr = NoValue

\* the register of entangle_qubits(|0>, |0>)
BellRegister == entangle_qubits(QubitZero, QubitZero).qubits

\* C12: cnot().apply(from_2_qubits(h().run(|0>), |0>)) has non-zero amplitude
\* at indices 00 and 11 only, of equal squared magnitude, 1/2 each to the
\* precision of f32; every collapse of it returns 00 or 11, and each of the
\* two is returned for some target in [0,1).
C12_BellStateCollapse ==
    /\ (call.op = "entangle_qubits" /\ call.args = <<QubitZero, QubitZero>>) =>
          /\ ~call.panic
          /\ reg.qubits = BellRegister
          /\ Len(reg.qubits) = 4
          /\ reg.qubits[2] = CZero /\ reg.qubits[3] = CZero
          /\ reg.qubits[1] # CZero /\ reg.qubits[4] # CZero
          /\ MagSquare(reg.qubits[1]) = MagSquare(reg.qubits[4])
          /\ RelativeEqF32(2 * MagSquare(reg.qubits[1]), F1)
          /\ \E t \in RandomF32 : collapse_with_target(reg.qubits, t).bits = 0
          /\ \E t \in RandomF32 : collapse_with_target(reg.qubits, t).bits = 3
    /\ (IsCollapse /\ reg.qubits = BellRegister) =>
          ~call.ret.panic /\ call.ret.bits \in {0, 3}

\* a collapse() of the Bell register that returns 11
C12_Witness ==
    /\ call.op = "collapse"
    /\ reg.qubits = BellRegister
    /\ reg.qubits[1] # CZero /\ reg.qubits[4] # CZero
    /\ call.ret.bits = 3

\* |p_0|^2 + |p_1|^2 of the arguments of the last Qubit::new
NewSum == MagSquare(call.args[1]) + MagSquare(call.args[2])

\* C13: Qubit::new(p0, p1) fails when |p0|^2 + |p1|^2 differs from 1, by more
\* than the rounding of f32, as for (0,0) and (1,1), and succeeds when it
\* equals 1, as for (i,0), (-i,0), (1,0) and (0,-1); zero, one, plus and minus
\* never fail.
C13_QubitNewValidates ==
    /\ call.op = "Qubit::new" =>
          /\ Abs(NewSum - F1) > EPSILON => (call.panic /\ qubit = NoValue)
          /\ Abs(NewSum - F1) <= EPSILON =>
                (~call.panic /\ qubit = [inner |-> call.args])
          /\ call.args \in {<<CZero, CZero>>, <<COne, COne>>} => call.panic
          /\ call.args \in {<<CI, CZero>>, <<CNeg(CI), CZero>>, <<COne, CZero>>,
                            <<CZero, CNeg(COne)>>} => ~call.panic
    /\ call.op \in {"Qubit::zero", "Qubit::one", "Qubit::plus", "Qubit::minus"} =>
          /\ ~call.panic
          /\ qubit # NoValue
          /\ RelativeEqF32(F1, MagSquare(qubit.inner[1]) + MagSquare(qubit.inner[2]))

\* Qubit::new(1, 1) was refused
C13_Witness ==
    /\ call.op = "Qubit::new"
    /\ call.args = <<COne, COne>>
    /\ call.panic
    /\ qubit = NoValue

\* the index 2b + a of the basis state whose index is 2a + b (1-based)
ExchangedIndex(i) == IF i = 2 THEN 3 ELSE IF i = 3 THEN 2 ELSE i
\* a register with its two wires exchanged
ExchangeWires(v) == [i \in 1..4 |-> v[ExchangedIndex(i)]]
\* SWAP * G * SWAP, entry by entry
WiresExchanged(G) == [i \in 1..4 |-> [j \in 1..4 |-> G[ExchangedIndex(i)][ExchangedIndex(j)]]]

\* C14: G.swap() has the matrix SWAP * G * SWAP and is G with its two wires
\* exchanged: for basis qubits a, b, G.swap().apply(from_2_qubits(a, b)) is
\* G.apply(from_2_qubits(b, a)) with its wires exchanged; cnot().swap() maps
\* (a, b) to (a XOR b, b).
C14_SwapExchangesWires ==
    /\ call.op = "BinaryGate::swap" =>
          /\ ~call.panic
          /\ gate.mat = MatMul(MatMul(swap.mat, call.args[1]), swap.mat)
          /\ gate.mat = WiresExchanged(call.args[1])
    /\ call.op = "apply" =>
          \A a \in {0, 1}, b \in {0, 1} :
             call.args[2] = Ket(a, b) =>
                \* the gate applied is G.swap() for G = WiresExchanged of it
                LET G == WiresExchanged(call.args[1])
                IN  /\ WiresExchanged(G) = call.args[1]
                    /\ reg.qubits = ExchangeWires(MatVec(G, Ket(b, a)))
                    /\ call.args[1] = CnotSwapped.mat =>
                          reg.qubits = Ket(Xor(a, b), b)

\* cnot().swap() applied to (a, b) = (0, 1) gives (1, 1)
C14_Witness ==
    /\ call.op = "apply"
    /\ call.args[1] = CnotSwapped.mat
    /\ call.args[1] # cnot.mat
    /\ call.args[2] = Ket(0, 1)
    /\ reg.qubits = Ket(1, 1)

\* bit j of the u8 x
BitOf(x, j) == (x \div (2 ^ j)) % 2 = 1

\* C15: set(i, v) with i in 0..7 makes bit i equal v and leaves the other seven
\* bits as they were, and index(j) returns bit j of the register: so after
\* any sequence of sets index(j) is the value of the most recent set on j, or
\* the initial bit j if j was never set.
C15_SetThenIndex ==
    /\ call.op = "set" =>
          /\ ~call.panic
          /\ \A j \in 0..(U8Bits - 1) :
                /\ BitOf(cr.bits, j) =
                      IF j = call.index THEN call.val ELSE BitOf(call.before, j)
                /\ index(cr, j) = BitOf(cr.bits, j)
    /\ call.op = "index" =>
          /\ ~call.panic
          /\ call.ret = BitOf(cr.bits, call.index)

\* set(7, false) on 0b10001010 gives 0b00001010
C15_Witness ==
    /\ call.op = "set"
    /\ call.index = 7
    /\ ~call.val
    /\ call.before = 138
    /\ cr.bits = 10

\* what collapse_with_target returns on the register for the target t1
ReturnedFor(t1) == collapse_with_target(reg.qubits, t1)

\* after a collapse with a target t2 in [0,1): every target t1 <= t2 in [0,1)
\* returns an index that is not above the one returned for t2
MonotoneInTarget ==
    (/\ IsCollapse
     /\ InUnitRange(call.target)
     /\ HasNonZeroAmplitude)
    => \A t1 \in 0..call.target :
          /\ ReturnedFor(t1).panic = call.ret.panic
          /\ ~call.ret.panic => ReturnedFor(t1).bits <= call.ret.bits

\* a collapse leaves the register as it is
CollapseKeepsRegister ==
    (call'.op \in {"collapse", "collapse_with_target"}) => reg' = reg

\* C16: for a register with a non-zero amplitude, collapse_with_target is
\* monotone non-decreasing in its target over [0,1), also when the larger
\* target falls through to the reserve index, and the call does not change
\* the register.
C16_CollapseMonotone == []MonotoneInTarget /\ [][CollapseKeepsRegister]_vars

\* the target fell through to the reserve index 11, and a smaller target
\* returns the smaller index 00
C16_Witness ==
    /\ call.op = "collapse_with_target"
    /\ InUnitRange(call.target)
    /\ ~call.ret.panic
    /\ ~call.ret.early
    /\ call.ret.bits = 3
    /\ \E t1 \in 0..call.target :
          ReturnedFor(t1).early /\ ReturnedFor(t1).bits = 0

====
